---- MODULE Spec2Model ----
(***************************************************************************)
(* A model of parser.py: the issuer registry (ALL_PARSERS, ALL_KEYS, the   *)
(* parser classes), issuer identification (BaseParser.identify,           *)
(* get_parser), the per-issuer extract methods with their regular         *)
(* expressions, and the control flow of process_pdf.                      *)
(*                                                                         *)
(* A Python str is a sequence of one-character strings.  A dict is a       *)
(* function whose domain is its key set.                                   *)
(***************************************************************************)
EXTENDS Integers, Sequences, FiniteSets, TLC

\* ------------------------------------------------------------------------
\* Bounds of the model
\* ------------------------------------------------------------------------

\* A text is the concatenation of at most MaxFrags fragments of Pool.
MaxFrags == 2

\* ------------------------------------------------------------------------
\* Characters and strings
\* ------------------------------------------------------------------------

\* The currency sign of the f-string of HDFCParser.extract.
RUPEE == "₹"

\* What str.split(), str.strip() and the regex class \s treat as whitespace
\* (the ASCII members).
Whitespace == {" ", "\t", "\n", "\r", "\f"}

\* The regex class \d.
Digits == {"0", "1", "2", "3", "4", "5", "6", "7", "8", "9"}

\* The regex class A-Z.
UpperAZ == {"A", "B", "C", "D", "E", "F", "G", "H", "I", "J", "K", "L", "M",
            "N", "O", "P", "Q", "R", "S", "T", "U", "V", "W", "X", "Y", "Z"}

\* Python's `keyword in text` for two str: keyword occurs as a contiguous,
\* case-sensitive substring.
Contains(keyword, text) ==
    \E i \in 1..(Len(text) - Len(keyword) + 1) :
        SubSeq(text, i, i + Len(keyword) - 1) = keyword

RECURSIVE LStrip(_)
LStrip(s) ==
    IF s # <<>> /\ Head(s) \in Whitespace THEN LStrip(Tail(s)) ELSE s

RECURSIVE RStrip(_)
RStrip(s) ==
    IF s # <<>> /\ s[Len(s)] \in Whitespace
    THEN RStrip(SubSeq(s, 1, Len(s) - 1))
    ELSE s

\* str.strip()
Strip(s) == RStrip(LStrip(s))

\* str.split() with no argument: the maximal runs of non-whitespace, in
\* order.  WordStarts are the positions where such a run begins.
WordStarts(s) ==
    {i \in 1..Len(s) :
        s[i] \notin Whitespace /\ (i = 1 \/ s[i - 1] \in Whitespace)}

\* The last position of the run that begins at i.
WordEnd(s, i) ==
    CHOOSE j \in i..Len(s) :
        /\ \A m \in i..j : s[m] \notin Whitespace
        /\ (j = Len(s) \/ s[j + 1] \in Whitespace)

Split(s) ==
    LET starts == WordStarts(s)
        nth(n) == CHOOSE i \in starts :
                      Cardinality({j \in starts : j < i}) = n - 1
    IN  [n \in 1..Cardinality(starts) |-> SubSeq(s, nth(n), WordEnd(s, nth(n)))]

\* sep.join(words)
RECURSIVE Join(_, _)
Join(sep, words) ==
    IF words = <<>> THEN <<>>
    ELSE IF Len(words) = 1 THEN words[1]
    ELSE words[1] \o sep \o Join(sep, Tail(words))

\* A variant of NormalizeWhitespace that hands the page text on as it is.
NormalizeWhitespace_identity(raw) == raw

\* ' '.join(page.get_text().split())
NormalizeWhitespace(raw) == Join(<<" ">>, Split(raw))

\* ------------------------------------------------------------------------
\* Regular expressions
\*
\* Every pattern of parser.py is a concatenation of items, an item being a
\* character class with a repetition count, with one capturing group that
\* spans consecutive items.  A pattern is [items, gfirst, glast]: the group
\* is items gfirst..glast.  max = -1 stands for "no upper limit".
\* ------------------------------------------------------------------------

One(c) == [cls |-> {c}, min |-> 1, max |-> 1]
Times(cls, n) == [cls |-> cls, min |-> n, max |-> n]
Plus(cls) == [cls |-> cls, min |-> 1, max |-> -1]
Star(cls) == [cls |-> cls, min |-> 0, max |-> -1]

\* A literal run of the pattern.
Literal(s) == [i \in 1..Len(s) |-> One(s[i])]

\* The number of consecutive characters of text from pos on that are in cls,
\* at most limit of them (limit = -1: no limit).
RunLength(text, pos, cls, limit) ==
    LET most == IF limit = -1 \/ limit > Len(text) - pos + 1
                THEN Len(text) - pos + 1
                ELSE limit
        runs == {n \in 0..most : \A j \in 0..(n - 1) : text[pos + j] \in cls}
    IN  CHOOSE n \in runs : \A m \in runs : m <= n

\* The backtracking matcher of the re module for such patterns: item k
\* takes as many characters as it can (greedy) and gives them back one at a
\* time while the rest of the pattern fails, so it ends up with the largest
\* count with which the rest matches.  The result is the sequence of the
\* positions where items k, k+1, ... start, followed by the position after
\* the match; <<>> when there is no match at pos.
RECURSIVE MatchFrom(_, _, _, _)
MatchFrom(items, k, pos, text) ==
    IF k > Len(items)
    THEN <<pos>>
    ELSE LET run   == RunLength(text, pos, items[k].cls, items[k].max)
             rests == {MatchFrom(items, k + 1, pos + n, text) :
                          n \in items[k].min..run} \ {<<>>}
         IN  IF rests = {}
             THEN <<>>
             ELSE <<pos>> \o (CHOOSE r \in rests :
                                 \A q \in rests : q[1] <= r[1])

\* The value re.search returns when nothing matches.
NoMatch == [matched |-> FALSE, group1 |-> <<>>]

\* re.search(pattern, text): the match at the leftmost position where the
\* pattern matches, as a match object of which group(1) is kept; NoMatch
\* (Python's None) when there is none.
re_search(pattern, text) ==
    LET found == {MatchFrom(pattern.items, 1, s, text) :
                     s \in 1..(Len(text) + 1)} \ {<<>>}
    IN  IF found = {}
        THEN NoMatch
        ELSE LET b == CHOOSE m \in found : \A q \in found : m[1] <= q[1]
             IN  [matched |-> TRUE,
                  group1  |-> SubSeq(text, b[pattern.gfirst],
                                     b[pattern.glast + 1] - 1)]

\* re.finditer(pattern, text): an iterator object, whatever the text.
\* parser.py never advances it; what it uses is bool(iterator), which is
\* True for every iterator, and the attribute group, which an iterator
\* does not have.
re_finditer(pattern, text) == [truthy |-> TRUE]

\* ------------------------------------------------------------------------
\* The literal strings of parser.py
\* ------------------------------------------------------------------------

KwHDFC ==
    <<"H", "D", "F", "C", " ", "B", "A", "N", "K">>

KwChase ==
    <<"c", "h", "a", "s", "e", ".", "c", "o", "m">>

KwAmex ==
    <<"a", "m", "e", "r", "i", "c", "a", "n", " ", "e", "x", "p", "r", "e",
      "s", "s">>

KwCapitalOne ==
    <<"c", "a", "p", "i", "t", "a", "l", " ", "o", "n", "e">>

KwBankOfAmerica ==
    <<"b", "a", "n", "k", " ", "o", "f", " ", "a", "m", "e", "r", "i", "c",
      "a">>

KwCiti ==
    <<"c", "i", "t", "i", ".", "c", "o", "m">>

LitName ==
    <<"N", "a", "m", "e", ":">>

LitCardNo ==
    <<"C", "a", "r", "d", " ", "N", "o", ":">>

LitCardMask ==
    <<"X", "X", "X", "X", " ", "X", "X", "X", "X", " ", "X", "X", "X", "X",
      " ">>

LitPaymentDueDate ==
    <<"P", "a", "y", "m", "e", "n", "t", " ", "D", "u", "e", " ", "D", "a",
      "t", "e", ":">>

LitTotalDues ==
    <<"T", "o", "t", "a", "l", " ", "D", "u", "e", "s">>

LitStatementDate ==
    <<"S", "t", "a", "t", "e", "m", "e", "n", "t", " ", "D", "a", "t", "e">>

LitPreparedFor ==
    <<"P", "r", "e", "p", "a", "r", "e", "d", " ", "f", "o", "r", ":">>

LitNewBalance ==
    <<"N", "e", "w", " ", "B", "a", "l", "a", "n", "c", "e">>

\* The default of extracted_data.get(key, 'Not Found').
NotFound ==
    <<"N", "o", "t", " ", "F", "o", "u", "n", "d">>

\* The literal part of f"Statement Date: {period_match.group(1)}".
StatementDatePrefix ==
    <<"S", "t", "a", "t", "e", "m", "e", "n", "t", " ", "D", "a", "t", "e",
      ":", " ">>

\* ------------------------------------------------------------------------
\* The patterns of the extract methods
\* ------------------------------------------------------------------------

\* r"Name:\s+([A-Z\s]+)\n"
HDFCNamePattern ==
    [items  |-> Literal(LitName)
                \o <<Plus(Whitespace), Plus(UpperAZ \cup Whitespace),
                     One("\n")>>,
     gfirst |-> Len(LitName) + 2,
     glast  |-> Len(LitName) + 2]

\* r"Card No:\s+XXXX XXXX XXXX (\d{4})"
HDFCCardPattern ==
    [items  |-> Literal(LitCardNo) \o <<Plus(Whitespace)>>
                \o Literal(LitCardMask) \o <<Times(Digits, 4)>>,
     gfirst |-> Len(LitCardNo) + Len(LitCardMask) + 2,
     glast  |-> Len(LitCardNo) + Len(LitCardMask) + 2]

\* (\d{2}-\d{2}-\d{4})
DashedDate ==
    <<Times(Digits, 2), One("-"), Times(Digits, 2), One("-"),
      Times(Digits, 4)>>

\* r"Payment Due Date:\s*(\d{2}-\d{2}-\d{4})"
HDFCDueDatePattern ==
    [items  |-> Literal(LitPaymentDueDate) \o <<Star(Whitespace)>>
                \o DashedDate,
     gfirst |-> Len(LitPaymentDueDate) + 2,
     glast  |-> Len(LitPaymentDueDate) + 1 + Len(DashedDate)]

\* ([\d,]+\.\d{2})
Amount == <<Plus(Digits \cup {","}), One("."), Times(Digits, 2)>>

\* r"Total Dues\s+([\d,]+\.\d{2})"
HDFCBalancePattern ==
    [items  |-> Literal(LitTotalDues) \o <<Plus(Whitespace)>> \o Amount,
     gfirst |-> Len(LitTotalDues) + 2,
     glast  |-> Len(LitTotalDues) + 1 + Len(Amount)]

\* r"Statement Date\s*(\d{2}-\d{2}-\d{4})"
HDFCPeriodPattern ==
    [items  |-> Literal(LitStatementDate) \o <<Star(Whitespace)>>
                \o DashedDate,
     gfirst |-> Len(LitStatementDate) + 2,
     glast  |-> Len(LitStatementDate) + 1 + Len(DashedDate)]

\* r"Prepared for:\s+([A-Z\s]+),"
AmexNamePattern ==
    [items  |-> Literal(LitPreparedFor)
                \o <<Plus(Whitespace), Plus(UpperAZ \cup Whitespace),
                     One(",")>>,
     gfirst |-> Len(LitPreparedFor) + 2,
     glast  |-> Len(LitPreparedFor) + 2]

\* r'New Balance\s+\$([\d,]+\.\d{2})'
AmexBalancePattern ==
    [items  |-> Literal(LitNewBalance) \o <<Plus(Whitespace), One("$")>>
                \o Amount,
     gfirst |-> Len(LitNewBalance) + 3,
     glast  |-> Len(LitNewBalance) + 2 + Len(Amount)]

\* ------------------------------------------------------------------------
\* The extract methods
\* ------------------------------------------------------------------------

\* data = {}
EmptyDict == [k \in {} |-> <<>>]

\* The dict that the assignments data[key] = value build, given as a set of
\* <<key, value>> pairs with one pair per key.
Dict(pairs) ==
    [k \in {kv[1] : kv \in pairs} |-> (CHOOSE kv \in pairs : kv[1] = k)[2]]

\* if match: data[key] = value
Assign(match, key, value) ==
    IF match.matched THEN {<<key, value>>} ELSE {}

\* What a call of extract does: it returns the dict data, or it raises exc.
Returns(data) == [raised |-> FALSE, exc |-> "none", data |-> data]
Raises(exc) == [raised |-> TRUE, exc |-> exc, data |-> EmptyDict]

\* HDFCParser.extract
HDFCExtract(text) ==
    LET name_match     == re_search(HDFCNamePattern, text)
        card_match     == re_search(HDFCCardPattern, text)
        due_date_match == re_search(HDFCDueDatePattern, text)
        balance_match  == re_search(HDFCBalancePattern, text)
        period_match   == re_search(HDFCPeriodPattern, text)
    IN  Returns(Dict(
            Assign(name_match, "Cardholder Name", Strip(name_match.group1))
            \cup Assign(card_match, "Card Last 4 Digits", card_match.group1)
            \cup Assign(due_date_match, "Payment Due Date",
                        due_date_match.group1)
            \cup Assign(balance_match, "Total Balance Due",
                        <<RUPEE>> \o balance_match.group1)
            \cup Assign(period_match, "Billing Cycle",
                        StatementDatePrefix \o period_match.group1)))

\* AmexParser.extract.  balance_match is the iterator that re.finditer
\* returns: `if balance_match` holds whether or not the pattern occurs, and
\* the iterator has no attribute group, so evaluating
\* balance_match.group(1) raises AttributeError.
AmexExtract(text) ==
    LET name_match    == re_search(AmexNamePattern, text)
        balance_match == re_finditer(AmexBalancePattern, text)
    IN  IF balance_match.truthy
        THEN Raises("AttributeError")
        ELSE Returns(Dict(Assign(name_match, "Cardholder Name",
                                 Strip(name_match.group1))))

\* ChaseParser.extract, CapitalOneParser.extract,
\* BankOfAmericaParser.extract, CitiParser.extract
StubExtract(text) == Returns(EmptyDict)

\* parser.extract(text), dispatched on the class.
Extract(p, text) ==
    CASE p = "HDFCParser" -> HDFCExtract(text)
      [] p = "AmexParser" -> AmexExtract(text)
      [] p \in {"ChaseParser", "CapitalOneParser", "BankOfAmericaParser",
                "CitiParser"} -> StubExtract(text)

\* The class attribute issuer_name.
issuer_name(p) ==
    CASE p = "HDFCParser"          -> "HDFC Bank"
      [] p = "ChaseParser"         -> "Chase"
      [] p = "AmexParser"          -> "American Express"
      [] p = "CapitalOneParser"    -> "Capital One"
      [] p = "BankOfAmericaParser" -> "Bank of America"
      [] p = "CitiParser"          -> "Citi"

\* ------------------------------------------------------------------------
\* The inputs
\* ------------------------------------------------------------------------

FragHdfcLower ==
    <<"h", "d", "f", "c", " ", "b", "a", "n", "k">>

FragAmexUpper ==
    <<"A", "M", "E", "R", "I", "C", "A", "N", " ", "E", "X", "P", "R", "E",
      "S", "S">>

FragNewline ==
    <<"\n">>

FragNameLine ==
    <<" ", "N", "a", "m", "e", ":", " ", "J", "O", "H", "N", " ", "S", "M",
      "I", "T", "H", "\n">>

FragTotalDues ==
    <<" ", "T", "o", "t", "a", "l", " ", "D", "u", "e", "s", " ", "1", ",",
      "0", "0", "0", ".", "0", "0">>

FragTotalDuesColon ==
    <<" ", "T", "o", "t", "a", "l", " ", "D", "u", "e", "s", " ", ":", " ",
      "1", ",", "0", "0", "0", ".", "0", "0">>

FragPreparedFor ==
    <<" ", "P", "r", "e", "p", "a", "r", "e", "d", " ", "f", "o", "r", ":",
      " ", "J", "O", "H", "N", " ", "S", "M", "I", "T", "H", ",">>

\* The fragments texts are put together from: the six keywords, two of them
\* in another letter case, a line break, and field lines in the layout the
\* patterns expect and in a layout they do not.
Pool ==
    {KwHDFC, KwChase, KwAmex, KwCapitalOne, KwBankOfAmerica, KwCiti,
     FragHdfcLower, FragAmexUpper, FragNewline, FragNameLine, FragTotalDues,
     FragTotalDuesColon, FragPreparedFor}

\* The sample text of the scenario of the specification.
SpecSampleText ==
    <<"H", "D", "F", "C", " ", "B", "A", "N", "K", " ", ".", ".", ".", " ",
      "N", "a", "m", "e", ":", " ", "J", "O", "H", "N", " ", "S", "M", "I",
      "T", "H", "\n", " ", ".", ".", ".", " ", "C", "a", "r", "d", " ", "N",
      "o", ".", ":", " ", "X", "X", "X", "X", " ", "1", "2", "3", "4", " ",
      ".", ".", ".", " ", "P", "a", "y", "m", "e", "n", "t", " ", "D", "u",
      "e", " ", "D", "a", "t", "e", " ", ":", " ", "0", "5", "/", "0", "6",
      "/", "2", "0", "2", "4", " ", ".", ".", ".", " ", "T", "o", "t", "a",
      "l", " ", "D", "u", "e", "s", " ", ":", " ", "1", ",", "0", "0", "0",
      ".", "0", "0", " ", ".", ".", ".", " ", "S", "t", "a", "t", "e", "m",
      "e", "n", "t", " ", "D", "a", "t", "e", " ", ":", " ", "0", "1", "/",
      "0", "6", "/", "2", "0", "2", "4">>

\* An HDFC statement in the layout the patterns of HDFCParser.extract
\* expect, one field per line.
CodeSampleText ==
    <<"H", "D", "F", "C", " ", "B", "A", "N", "K", "\n", "N", "a", "m", "e",
      ":", " ", "J", "O", "H", "N", " ", "S", "M", "I", "T", "H", "\n", "C",
      "a", "r", "d", " ", "N", "o", ":", " ", "X", "X", "X", "X", " ", "X",
      "X", "X", "X", " ", "X", "X", "X", "X", " ", "1", "2", "3", "4", "\n",
      "P", "a", "y", "m", "e", "n", "t", " ", "D", "u", "e", " ", "D", "a",
      "t", "e", ":", " ", "0", "5", "-", "0", "6", "-", "2", "0", "2", "4",
      "\n", "T", "o", "t", "a", "l", " ", "D", "u", "e", "s", " ", "1", ",",
      "0", "0", "0", ".", "0", "0", "\n", "S", "t", "a", "t", "e", "m", "e",
      "n", "t", " ", "D", "a", "t", "e", " ", "0", "1", "-", "0", "6", "-",
      "2", "0", "2", "4", "\n">>

RECURSIVE Flatten(_)
Flatten(frags) ==
    IF frags = <<>> THEN <<>> ELSE Head(frags) \o Flatten(Tail(frags))

Texts ==
    {Flatten(fs) : fs \in UNION {[1..n -> Pool] : n \in 0..MaxFrags}}
    \cup {SpecSampleText, CodeSampleText}

\* What fitz.open(filepath) finds: it raises; the document object is falsy
\* (line 123); the document has no page (line 126); reading page 0 raises;
\* or page 0 has the text raw.  Which of these a file gives is the PDF
\* library's business; the model allows each case process_pdf tells apart.
Docs ==
    {[kind |-> k, raw |-> <<>>] :
        k \in {"open_raises", "falsy", "no_pages", "get_text_raises"}}
    \cup {[kind |-> "ok", raw |-> t] : t \in Texts}

\* ------------------------------------------------------------------------
\* The state
\* ------------------------------------------------------------------------

VARIABLES
    ALL_PARSERS,        \* the module-level list of parser classes
    ALL_KEYS,           \* the module-level list of field names
    required_keywords,  \* the class attribute, per parser class
    pc,                 \* where process_pdf is ("idle": not running)
    doc,                \* the document process_pdf is working on
    text,               \* the local text of process_pdf
    parser,             \* the local parser of process_pdf
    extracted_data,     \* the local extracted_data of process_pdf
    events,             \* the calls made and lines printed by this run
    table,              \* the field lines of the results table, as printed
    outcome,            \* the message this run ended with
    escaped,            \* the exception that left process_pdf, if any
    last                \* the call the caller made directly, and its result

vars == <<ALL_PARSERS, ALL_KEYS, required_keywords, pc, doc, text, parser,
          extracted_data, events, table, outcome, escaped, last>>

registry == <<ALL_PARSERS, ALL_KEYS, required_keywords>>
locals == <<doc, text, parser, extracted_data, events, table, outcome,
            escaped>>

\* line 104
InitialParsers ==
    <<"HDFCParser", "ChaseParser", "AmexParser", "CapitalOneParser",
      "BankOfAmericaParser", "CitiParser">>

\* line 105
InitialKeys ==
    <<"Cardholder Name", "Card Last 4 Digits", "Payment Due Date",
      "Total Balance Due", "Billing Cycle">>

\* The required_keywords of the six classes.
InitialKeywords ==
    [p \in {InitialParsers[i] : i \in 1..Len(InitialParsers)} |->
        CASE p = "HDFCParser"          -> <<KwHDFC>>
          [] p = "ChaseParser"         -> <<KwChase>>
          [] p = "AmexParser"          -> <<KwAmex>>
          [] p = "CapitalOneParser"    -> <<KwCapitalOne>>
          [] p = "BankOfAmericaParser" -> <<KwBankOfAmerica>>
          [] p = "CitiParser"          -> <<KwCiti>>]

\* Python's None, for a parser.
None == "None"

\* BaseParser.identify, inherited by every class:
\* all(keyword in text for keyword in cls.required_keywords)
identify(cls, t) ==
    \A i \in 1..Len(required_keywords[cls]) :
        Contains(required_keywords[cls][i], t)

\* The loop of get_parser from the i-th class on.
RECURSIVE GetParserFrom(_, _)
GetParserFrom(i, t) ==
    IF i > Len(ALL_PARSERS)
    THEN None
    ELSE IF identify(ALL_PARSERS[i], t)
         THEN ALL_PARSERS[i]
         ELSE GetParserFrom(i + 1, t)

\* A variant of get_parser whose loop does not stop at the first class that
\* identifies the text: the last one wins.
get_parser_last_match(t) ==
    LET hits == {i \in 1..Len(ALL_PARSERS) : identify(ALL_PARSERS[i], t)}
    IN  IF hits = {}
        THEN None
        ELSE ALL_PARSERS[CHOOSE i \in hits : \A j \in hits : j <= i]

get_parser(t) == GetParserFrom(1, t)

\* The exception classes that occur; all of them derive from Exception.
ExceptionClasses == {"FileDataError", "RuntimeError", "AttributeError"}

\* A variant of the handler that names the exceptions of the PDF library
\* only.
Catches_library_only(exc) == exc \in {"FileDataError", "RuntimeError"}

\* except Exception as e (line 158): which exceptions the handler catches.
Catches(exc) == exc \in ExceptionClasses

\* The state of the caller's direct call before any was made.
NoCall ==
    [op |-> "none", parser |-> None, text |-> <<>>, found |-> None,
     result |-> Returns(EmptyDict), second |-> <<>>, interleaved |-> FALSE]

\* The locals of process_pdf when it is not running.
LocalsReset ==
    /\ doc' = [kind |-> "none", raw |-> <<>>]
    /\ text' = <<>>
    /\ parser' = None
    /\ extracted_data' = EmptyDict
    /\ events' = <<>>
    /\ table' = <<>>
    /\ outcome' = "none"
    /\ escaped' = "none"

Init ==
    /\ ALL_PARSERS = InitialParsers
    /\ ALL_KEYS = InitialKeys
    /\ required_keywords = InitialKeywords
    /\ pc = "idle"
    /\ doc = [kind |-> "none", raw |-> <<>>]
    /\ text = <<>>
    /\ parser = None
    /\ extracted_data = EmptyDict
    /\ events = <<>>
    /\ table = <<>>
    /\ outcome = "none"
    /\ escaped = "none"
    /\ last = NoCall

\* ------------------------------------------------------------------------
\* process_pdf, step by step
\* ------------------------------------------------------------------------

\* An exception exc is raised inside the try block, after the events evs:
\* the handler of line 158 prints the error, or the exception leaves
\* process_pdf.
Raise(exc, evs) ==
    /\ pc' = "done"
    /\ IF Catches(exc)
       THEN /\ events' = Append(evs, "unexpected error")
            /\ outcome' = "unexpected error"
            /\ escaped' = escaped
       ELSE /\ events' = evs
            /\ outcome' = outcome
            /\ escaped' = exc

\* A return statement of process_pdf after printing the message msg.
ReturnWith(msg, evs) ==
    /\ pc' = "done"
    /\ events' = Append(evs, msg)
    /\ outcome' = msg
    /\ escaped' = escaped

\* A step that goes on to the position next.
GoOn(next, evs) ==
    /\ pc' = next
    /\ events' = evs
    /\ outcome' = outcome
    /\ escaped' = escaped

\* The caller calls process_pdf(filepath): line 119 prints the file name.
StartDoc ==
    /\ pc = "idle"
    /\ last.op = "none"
    /\ pc' = "open"
    /\ \E d \in Docs : doc' = d
    /\ text' = <<>>
    /\ events' = <<"processing">>
    /\ UNCHANGED <<registry, parser, extracted_data, table, outcome, escaped,
                   last>>

\* Lines 121-128: text = "", open the document, read the first page and
\* normalise its whitespace.
ReadFirstPage ==
    /\ pc = "open"
    /\ LET evs == Append(events, "fitz.open")
       IN  IF doc.kind = "open_raises"
           THEN Raise("FileDataError", evs) /\ text' = text
           ELSE IF doc.kind = "falsy"
           THEN ReturnWith("cannot open", evs) /\ text' = text
           ELSE IF doc.kind = "no_pages"
           THEN GoOn("check", evs) /\ text' = <<>>
           ELSE IF doc.kind = "get_text_raises"
           THEN Raise("RuntimeError", Append(evs, "get_text"))
                /\ text' = text
           ELSE GoOn("check", Append(evs, "get_text"))
                /\ text' = NormalizeWhitespace(doc.raw)
    /\ UNCHANGED <<registry, doc, parser, extracted_data, table, last>>

\* A variant of CheckText without the test of lines 130-132.
CheckText_unchecked ==
    /\ pc = "check"
    /\ GoOn("identify", events)
    /\ UNCHANGED <<registry, doc, text, parser, extracted_data, table, last>>

\* Lines 130-132: if not text.strip()
CheckText ==
    /\ pc = "check"
    /\ IF Strip(text) = <<>>
       THEN ReturnWith("no text", events)
       ELSE GoOn("identify", events)
    /\ UNCHANGED <<registry, doc, text, parser, extracted_data, table, last>>

\* A variant of Identify whose scan takes the first class off ALL_PARSERS.
Identify_consuming ==
    /\ pc = "identify"
    /\ parser' = get_parser(text)
    /\ ALL_PARSERS' = Tail(ALL_PARSERS)
    /\ GoOn("announce", Append(events, "get_parser"))
    /\ UNCHANGED <<ALL_KEYS, required_keywords, doc, text, extracted_data,
                   table, last>>

\* Line 134: parser = get_parser(text)
Identify ==
    /\ pc = "identify"
    /\ parser' = get_parser(text)
    /\ GoOn("announce", Append(events, "get_parser"))
    /\ UNCHANGED <<registry, doc, text, extracted_data, table, last>>

\* Lines 136-140: if not parser ... else print the issuer.
Announce ==
    /\ pc = "announce"
    /\ IF parser = None
       THEN ReturnWith("issuer not identified", events)
       ELSE GoOn("extract", Append(events, "issuer detected"))
    /\ UNCHANGED <<registry, doc, text, parser, extracted_data, table, last>>

\* Line 142: extracted_data = parser.extract(text)
CallExtract ==
    /\ pc = "extract"
    /\ LET r   == Extract(parser, text)
           evs == Append(events, "extract")
       IN  IF r.raised
           THEN Raise(r.exc, evs) /\ extracted_data' = extracted_data
           ELSE GoOn("report", evs) /\ extracted_data' = r.data
    /\ UNCHANGED <<registry, doc, text, parser, table, last>>

\* extracted_data.get(key, 'Not Found')
Get(data, key) == IF key \in DOMAIN data THEN data[key] ELSE NotFound

\* A variant of TableLines that prints the keys of ALL_KEYS that data has,
\* and no line for the others.
TableLines_found_only(data) ==
    LET present == SelectSeq(ALL_KEYS, LAMBDA k : k \in DOMAIN data)
    IN  [i \in 1..Len(present) |->
            [key |-> present[i], value |-> data[present[i]]]]

\* Lines 153-155: one line per key of ALL_KEYS, in that order.
TableLines(data) ==
    [i \in 1..Len(ALL_KEYS) |->
        [key |-> ALL_KEYS[i], value |-> Get(data, ALL_KEYS[i])]]

\* A variant of Report without the test of line 144.
Report_always_table ==
    /\ pc = "report"
    /\ ReturnWith("results table", events)
    /\ table' = [i \in 1..Len(ALL_KEYS) |->
                    [key |-> ALL_KEYS[i],
                     value |-> IF ALL_KEYS[i] \in DOMAIN extracted_data
                               THEN extracted_data[ALL_KEYS[i]]
                               ELSE NotFound]]
    /\ UNCHANGED <<registry, doc, text, parser, extracted_data, last>>

\* Lines 144-156: "No data could be extracted." or the results table.
Report ==
    /\ pc = "report"
    /\ IF DOMAIN extracted_data = {}
       THEN ReturnWith("no data extracted", events) /\ table' = table
       ELSE ReturnWith("results table", events)
            /\ table' = TableLines(extracted_data)
    /\ UNCHANGED <<registry, doc, text, parser, extracted_data, last>>

\* process_pdf has returned to its caller.
Return ==
    /\ pc = "done"
    /\ escaped = "none"
    /\ pc' = "idle"
    /\ LocalsReset
    /\ UNCHANGED <<registry, last>>

\* ------------------------------------------------------------------------
\* Direct calls of get_parser and extract by a caller
\* ------------------------------------------------------------------------

\* get_parser(t), for some text t.
CallGetParser ==
    /\ pc = "idle"
    /\ last.op = "none"
    /\ \E t \in Texts :
          last' = [last EXCEPT !.op = "get_parser", !.text = t,
                               !.found = get_parser(t)]
    /\ UNCHANGED <<registry, pc, locals>>

\* p.extract(t), the first time, for some parser class p and text t.
CallParserExtract ==
    /\ pc = "idle"
    /\ last.op = "none"
    /\ \E p \in DOMAIN required_keywords, t \in Texts :
          last' = [last EXCEPT !.op = "extract", !.parser = p, !.text = t,
                               !.result = Extract(p, t)]
    /\ UNCHANGED <<registry, pc, locals>>

\* The texts of the calls made between the two calls of extract: one per
\* extract method that reads its text, and one that no issuer matches.
OtherTexts == {KwHDFC \o FragTotalDues, KwAmex \o FragPreparedFor, FragNewline}

\* Between the two calls: another text t2 is identified and, if an issuer
\* is found, extracted from; the results are dropped.
CallOnOtherText ==
    /\ pc = "idle"
    /\ last.op = "extract"
    /\ last.second = <<>>
    /\ ~last.interleaved
    /\ \E t2 \in OtherTexts \ {last.text} :
          LET p2 == get_parser(t2)
          IN  p2 # None => Extract(p2, t2).raised \in BOOLEAN
    /\ last' = [last EXCEPT !.interleaved = TRUE]
    /\ UNCHANGED <<registry, pc, locals>>

\* p.extract(t) again, with the arguments of the first call.
CallParserExtractAgain ==
    /\ pc = "idle"
    /\ last.op = "extract"
    /\ last.second = <<>>
    /\ last' = [last EXCEPT !.second = <<Extract(last.parser, last.text)>>]
    /\ UNCHANGED <<registry, pc, locals>>

\* The caller drops the results of its calls.
DropResults ==
    /\ pc = "idle"
    /\ last.op # "none"
    /\ last' = NoCall
    /\ UNCHANGED <<registry, pc, locals>>

Next ==
    \/ StartDoc
    \/ ReadFirstPage
    \/ CheckText
    \/ Identify
    \/ Announce
    \/ CallExtract
    \/ Report
    \/ Return
    \/ CallGetParser
    \/ CallParserExtract
    \/ CallOnOtherText
    \/ CallParserExtractAgain
    \/ DropResults

Spec == Init /\ [][Next]_vars

\* ------------------------------------------------------------------------
\* Properties
\* ------------------------------------------------------------------------

\* The field values of the sample texts.
ValJohnSmith ==
    <<"J", "O", "H", "N", " ", "S", "M", "I", "T", "H">>

Val1234 ==
    <<"1", "2", "3", "4">>

ValDueSlash ==
    <<"0", "5", "/", "0", "6", "/", "2", "0", "2", "4">>

ValAmount ==
    <<"1", ",", "0", "0", "0", ".", "0", "0">>

ValStmtSlash ==
    <<"0", "1", "/", "0", "6", "/", "2", "0", "2", "4">>

\* The event e is in the log of the current run of process_pdf.
Happened(e) == \E i \in 1..Len(events) : events[i] = e

\* The position of the first occurrence of e in the log.
Position(e) ==
    CHOOSE i \in 1..Len(events) :
        events[i] = e /\ \A j \in 1..(i - 1) : events[j] # e

\* The positions in the registry of the classes that identify the text t.
Matching(t) == {i \in 1..Len(ALL_PARSERS) : identify(ALL_PARSERS[i], t)}

\* r is the first class in registry order that identifies t, and None
\* exactly when no class does.
FirstMatch(t, r) ==
    IF Matching(t) = {}
    THEN r = None
    ELSE \E i \in Matching(t) :
            /\ r = ALL_PARSERS[i]
            /\ \A j \in Matching(t) : i <= j

\* C1: get_parser returns the earliest class of ALL_PARSERS whose identify
\* holds of the text, and None exactly when no class matches; when several
\* classes match, the first registered one is returned, in a direct call and
\* in process_pdf alike.
C1_FirstMatchWins ==
    /\ last.op = "get_parser" => FirstMatch(last.text, last.found)
    /\ Happened("get_parser") => FirstMatch(text, parser)

\* A direct call of get_parser on a text that two classes identify, with the
\* later-registered keyword first in the text, returned the earlier class.
C1_Witness ==
    /\ last.op = "get_parser"
    /\ last.text = KwChase \o KwHDFC
    /\ Cardinality(Matching(last.text)) = 2
    /\ last.found = "HDFCParser"

UpperLetters ==
    <<"A", "B", "C", "D", "E", "F", "G", "H", "I", "J", "K", "L", "M",
      "N", "O", "P", "Q", "R", "S", "T", "U", "V", "W", "X", "Y", "Z">>

LowerLetters ==
    <<"a", "b", "c", "d", "e", "f", "g", "h", "i", "j", "k", "l", "m",
      "n", "o", "p", "q", "r", "s", "t", "u", "v", "w", "x", "y", "z">>

\* The character c in lower case.
Lower(c) ==
    IF c \in UpperAZ
    THEN LowerLetters[CHOOSE i \in 1..Len(UpperLetters) : UpperLetters[i] = c]
    ELSE c

\* The string s in lower case.
LowerStr(s) == [i \in 1..Len(s) |-> Lower(s[i])]

\* The text t contains one of the keywords of cls in some letter case.
HasKeywordAnyCase(cls, t) ==
    \E k \in 1..Len(required_keywords[cls]) :
        Contains(LowerStr(required_keywords[cls][k]), LowerStr(t))

\* C2: identification is case-insensitive: a text that contains a keyword of
\* class P in any letter case, and no keyword of an earlier-registered class
\* in any letter case, is identified as P.
C2_CaseInsensitiveIdentification ==
    last.op = "get_parser" =>
        \A i \in 1..Len(ALL_PARSERS) :
            ( /\ HasKeywordAnyCase(ALL_PARSERS[i], last.text)
              /\ \A j \in 1..(i - 1) :
                     ~HasKeywordAnyCase(ALL_PARSERS[j], last.text) )
            => last.found = ALL_PARSERS[i]

\* The pattern with which the class p looks for the field key; <<>> when
\* extract of p has no pattern for it.
FieldPattern(p, key) ==
    IF p = "HDFCParser"
    THEN CASE key = "Cardholder Name"    -> <<HDFCNamePattern>>
           [] key = "Card Last 4 Digits" -> <<HDFCCardPattern>>
           [] key = "Payment Due Date"   -> <<HDFCDueDatePattern>>
           [] key = "Total Balance Due"  -> <<HDFCBalancePattern>>
           [] key = "Billing Cycle"      -> <<HDFCPeriodPattern>>
    ELSE IF p = "AmexParser"
    THEN CASE key = "Cardholder Name"    -> <<AmexNamePattern>>
           [] key = "Total Balance Due"  -> <<AmexBalancePattern>>
           [] OTHER                      -> <<>>
    ELSE <<>>

\* The text t has no match for the pattern the class p has for key.
NoMatchFor(p, key, t) ==
    \A i \in 1..Len(FieldPattern(p, key)) :
        ~re_search(FieldPattern(p, key)[i], t).matched

\* C3: for every class of the registry and every field, extract on a text
\* with no match for the field's pattern leaves the field out of the
\* mapping it returns, and extract never raises, whatever the text.
C3_ExtractNeverRaises ==
    last.op = "extract" =>
        /\ ~last.result.raised
        /\ \A i \in 1..Len(ALL_KEYS) :
               NoMatchFor(last.parser, ALL_KEYS[i], last.text)
               => ALL_KEYS[i] \notin DOMAIN last.result.data

\* The document has no first-page text, or only whitespace.
EmptyDoc ==
    \/ doc.kind = "no_pages"
    \/ doc.kind = "ok" /\ \A i \in 1..Len(doc.raw) : doc.raw[i] \in Whitespace

\* C4: a document whose first-page text is empty or whitespace-only ends in
\* the "no text" outcome; get_parser is never called for it and "issuer not
\* identified" is never reported.
C4_EmptyTextIsNoText ==
    EmptyDoc =>
        /\ ~Happened("get_parser")
        /\ outcome # "issuer not identified"
        /\ pc = "done" => outcome = "no text"

\* A document whose first page holds two line breaks and nothing else ended
\* in "no text".
C4_Witness ==
    /\ pc = "done"
    /\ doc = [kind |-> "ok", raw |-> FragNewline \o FragNewline]
    /\ outcome = "no text"

\* The field lines print the five canonical fields in their order, each with
\* its value in data or the 'Not Found' marker.
AllFieldsInOrder(lines, data) ==
    /\ Len(lines) = Len(InitialKeys)
    /\ \A i \in 1..Len(InitialKeys) :
           /\ lines[i].key = InitialKeys[i]
           /\ lines[i].value = IF InitialKeys[i] \in DOMAIN data
                               THEN data[InitialKeys[i]]
                               ELSE NotFound

SpecSampleExpected ==
    Dict({<<"Cardholder Name", ValJohnSmith>>,
          <<"Card Last 4 Digits", Val1234>>,
          <<"Payment Due Date", ValDueSlash>>,
          <<"Total Balance Due", <<RUPEE>> \o ValAmount>>,
          <<"Billing Cycle", StatementDatePrefix \o ValStmtSlash>>})

\* C6: on the sample text of the scenario get_parser returns the HDFC class
\* and HDFCParser.extract yields exactly the five values of the scenario;
\* and a text with 'Total Dues : <amount>' yields the amount with the
\* currency sign as Total Balance Due.
C6_HdfcSampleScenario ==
    /\ (last.op = "get_parser" /\ last.text = SpecSampleText) =>
           /\ last.found = "HDFCParser"
           /\ issuer_name(last.found) = "HDFC Bank"
    /\ (last.op = "extract" /\ last.parser = "HDFCParser") =>
           /\ last.text = SpecSampleText =>
                  last.result = Returns(SpecSampleExpected)
           /\ Contains(LitTotalDues \o <<" ", ":", " ">> \o ValAmount,
                       last.text) =>
                  /\ ~last.result.raised
                  /\ "Total Balance Due" \in DOMAIN last.result.data
                  /\ last.result.data["Total Balance Due"]
                         = <<RUPEE>> \o ValAmount

\* An exception was raised in the current run of process_pdf.
RaisedInRun ==
    \/ doc.kind \in {"open_raises", "get_text_raises"} /\ Happened("fitz.open")
    \/ Happened("extract") /\ Extract(parser, text).raised

\* C7: no exception raised while opening or reading the document or inside
\* extract leaves process_pdf: the run ends with the "unexpected error"
\* message, and process_pdf returns to its caller.
C7_NoExceptionEscapes ==
    /\ escaped = "none"
    /\ (pc = "done" /\ RaisedInRun) =>
           /\ outcome = "unexpected error"
           /\ events[Len(events)] = "unexpected error"

\* The AttributeError of AmexParser.extract was caught.
C7_Witness ==
    /\ pc = "done"
    /\ parser = "AmexParser"
    /\ Happened("extract")
    /\ Extract(parser, text).exc = "AttributeError"
    /\ outcome = "unexpected error"
    /\ escaped = "none"

Outcomes ==
    {"cannot open", "no text", "issuer not identified", "unexpected error",
     "no data extracted", "results table"}

\* C9: in every run of process_pdf get_parser is called only after the text
\* was read and found non-empty; the issuer line is printed only after
\* get_parser returned a class and before extract is called; extract is
\* called only with a class; the table is printed only if extract returned
\* a non-empty mapping; and a finished run has reported exactly one of the
\* six outcomes, as the last thing it did.
C9_StepsOrderedAndGuarded ==
    /\ Happened("get_parser") =>
           /\ Strip(text) # <<>>
           /\ Happened("get_text")
           /\ Position("get_text") < Position("get_parser")
    /\ Happened("issuer detected") =>
           /\ Happened("get_parser")
           /\ parser # None
           /\ Position("get_parser") < Position("issuer detected")
    /\ Happened("extract") =>
           /\ parser # None
           /\ Happened("issuer detected")
           /\ Position("issuer detected") < Position("extract")
    /\ Happened("results table") =>
           /\ Happened("extract")
           /\ Position("extract") < Position("results table")
           /\ ~Extract(parser, text).raised
           /\ extracted_data = Extract(parser, text).data
           /\ DOMAIN extracted_data # {}
    /\ pc \notin {"idle", "done"} =>
           /\ outcome = "none"
           /\ \A i \in 1..Len(events) : events[i] \notin Outcomes
    /\ pc = "done" =>
           /\ outcome \in Outcomes
           /\ events[Len(events)] = outcome
           /\ Cardinality({i \in 1..Len(events) : events[i] \in Outcomes}) = 1

\* A run that printed the issuer line and then ended in "unexpected error".
C9_Witness ==
    /\ pc = "done"
    /\ outcome = "unexpected error"
    /\ Happened("issuer detected")
    /\ Position("issuer detected") < Position("unexpected error")

\* s has single spaces as its only whitespace, and none at either end.
IsNormalized(s) ==
    /\ \A i \in 1..Len(s) : s[i] \in Whitespace => s[i] = " "
    /\ \A i \in 1..(Len(s) - 1) : ~(s[i] = " " /\ s[i + 1] = " ")
    /\ s # <<>> => (s[1] # " " /\ s[Len(s)] # " ")

====
